---------------------------- MODULE Spec2Model ----------------------------
(***************************************************************************)
(* Model of the table merge engine of lijianqiao/table_data:               *)
(*   app/handlers/data_processor.py  DataProcessor                         *)
(*   app/handlers/file_handler.py    FileHandler                           *)
(*   app/merge_extract/merge.py      MergeApp (the four tabs of the page)  *)
(*   app/handlers/export_handler.py  ExportHandler                         *)
(*   app/state/session_manager.py    SessionManager                        *)
(*   app/core/container.py           Container                             *)
(*   app/ui/ui.py                    MainUI (app selector, page script)    *)
(*                                                                         *)
(* A string (column name, file name) is a sequence of characters, each a   *)
(* one-character TLA+ string, so that strip/lower/replace/splitext are     *)
(* computed and not assumed.  The two characters of the default provenance *)
(* column name (U+6765 U+6E90) are written "u6765" and "u6e90".            *)
(*                                                                         *)
(* A table (polars DataFrame) is a record                                  *)
(*   [columns : sequence of names, dtypes : sequence of kinds,             *)
(*    rows : sequence of rows], a row being a sequence of cells aligned    *)
(* with columns.  The input cell of table i, row r, column named c is the  *)
(* value <<i, r, c>>: every input cell is a distinct value, so that any    *)
(* reordering, loss or mis-tagging of rows shows in the result.  A cell    *)
(* written by pl.lit(s) is <<"lit", s>>.                                   *)
(***************************************************************************)
EXTENDS Integers, Sequences, FiniteSets, TLC

VARIABLES
    call,            \* the direct call just made: [op, ...] with its arguments
    result,          \* what that call returned or raised
    uploaded_files,  \* the batch handed to MergeApp._process_and_merge_files
    merge_args,      \* the arguments the batch run handed to merge_identical_dataframes
    processed_data,  \* SessionManager state "processed_data"
    shown,           \* messages ErrorHandler showed during the batch run
    source_stats,    \* rows of the source statistics table the batch run displayed
    selected_columns,\* SessionManager state "selected_columns"
    current_app,     \* SessionManager state "current_app"
    page,            \* what the last run of the page script rendered
    container,       \* Container._services and Container._singletons
    constructed      \* the service instances constructed so far, oldest first

vars == <<call, result, uploaded_files, merge_args, processed_data, shown,
          source_stats, selected_columns, current_app, page, container,
          constructed>>

\* the session keys and the page outside the upload tab
ui_vars == <<selected_columns, current_app, page>>

container_vars == <<container, constructed>>

-----------------------------------------------------------------------------
(* Bounds of the model *)

MaxTables == 3
MaxRows == 2
MaxCols == 2
MaxFiles == 2
MaxSheets == 2
MaxFileRows == 1
MaxCommonTables == 2
MaxCommonRows == 1
MaxRerunFiles == 1
MaxStatCols == 2
MaxStatRows == 2
MaxStatValue == 2
MaxSchemaCols == 2
MaxRequired == 3
MaxExportRows == 2
MaxSelected == 3
MaxStateValue == 2
MaxKeys == 2
MaxInstances == 3
MaxPageFiles == 1

-----------------------------------------------------------------------------
(* Generic helpers *)

Range(s) == {s[i] : i \in 1..Len(s)}

Min(S) == CHOOSE x \in S : \A y \in S : x <= y

\* sequences over S of length lo..hi
SeqsBetween(S, lo, hi) == UNION {[1..n -> S] : n \in lo..hi}

\* sequences over S without repetition, of length lo..hi
DistinctSeqs(S, lo, hi) ==
    {s \in SeqsBetween(S, lo, hi) : \A i, j \in 1..Len(s) : i # j => s[i] # s[j]}

RECURSIVE SumSeq(_)
SumSeq(s) == IF s = <<>> THEN 0 ELSE Head(s) + SumSeq(Tail(s))

-----------------------------------------------------------------------------
(* Strings *)

a_ == <<"a">>
b_ == <<"b">>
\* merge_identical_dataframes' default source_column_name
DEFAULT_SOURCE_COLUMN == <<"u6765", "u6e90">>

-----------------------------------------------------------------------------
(* Tables and the polars operations the code calls *)

Kinds == {"Int64", "String"}

NoTable == [columns |-> <<>>, dtypes |-> <<>>, rows |-> <<>>]

Lit(s) == <<"lit", s>>

\* len(df)
Height(df) == Len(df.rows)

\* the position of column name c in df.columns (0 when absent)
ColIndex(df, c) ==
    IF c \in Range(df.columns)
    THEN CHOOSE k \in 1..Len(df.columns) : df.columns[k] = c
    ELSE 0

\* df.with_columns(pl.lit(value).alias(name)): a column of that name is
\* replaced where it stands, otherwise the new column is appended last.
PlWithLiteral(df, name, value) ==
    LET k == ColIndex(df, name) IN
    IF k = 0
    THEN [columns |-> Append(df.columns, name),
          dtypes  |-> Append(df.dtypes, "String"),
          rows    |-> [r \in 1..Len(df.rows) |-> Append(df.rows[r], Lit(value))]]
    ELSE [columns |-> df.columns,
          dtypes  |-> [df.dtypes EXCEPT ![k] = "String"],
          rows    |-> [r \in 1..Len(df.rows) |-> [df.rows[r] EXCEPT ![k] = Lit(value)]]]

\* variant: the frames are stacked last to first
RECURSIVE ConcatRows_Reversed(_)
ConcatRows_Reversed(dfs) ==
    IF dfs = <<>> THEN <<>> ELSE ConcatRows_Reversed(Tail(dfs)) \o Head(dfs).rows

RECURSIVE ConcatRows(_)
ConcatRows(dfs) ==
    IF dfs = <<>> THEN <<>> ELSE Head(dfs).rows \o ConcatRows(Tail(dfs))

-----------------------------------------------------------------------------
(* Outcomes of a call: a returned table or a raised exception *)

NoError == [extra |-> {}, index |-> 0, missing |-> {}, reason |-> "none",
            type |-> "none"]

Raise(type, reason) ==
    [df |-> NoTable,
     error |-> [extra |-> {}, index |-> 0, missing |-> {}, reason |-> reason,
                type |-> type],
     status |-> "error"]

Return(df) == [df |-> df, error |-> NoError, status |-> "ok"]

NoResult == [df |-> NoTable, error |-> NoError, status |-> "none"]

\* pl.concat(dfs) with the default how="vertical": every frame must have the
\* schema (names and dtypes) of the first one.
PlConcat(dfs) ==
    IF dfs = <<>> THEN Raise("ValueError", "concat_empty")
    ELSE IF \E i \in 2..Len(dfs) :
                \/ dfs[i].columns # dfs[1].columns
                \/ dfs[i].dtypes # dfs[1].dtypes
    THEN Raise("SchemaError", "concat_schema")
    ELSE Return([columns |-> dfs[1].columns,
                 dtypes  |-> dfs[1].dtypes,
                 rows    |-> ConcatRows(dfs)])

\* df.group_by(name).len(): one row per distinct value of the column, with
\* the number of rows of df that hold it
PlGroupByLen(df, name) ==
    LET k == ColIndex(df, name)
        values == {df.rows[r][k] : r \in 1..Len(df.rows)}
    IN {[len |-> Cardinality({r \in 1..Len(df.rows) : df.rows[r][k] = v}),
         source |-> v] : v \in values}

\* .sort("len", descending=True) of those rows: group_by fixes no order of
\* the groups, so rows of equal len come in any order
PlSortLenDescending(groups) ==
    {s \in [1..Cardinality(groups) -> groups] :
        /\ Range(s) = groups
        /\ \A i, j \in 1..Len(s) : i < j => s[i].len >= s[j].len}

-----------------------------------------------------------------------------
(* str.strip().lower().replace(" ", "_") on character sequences *)

Whitespace == {" ", "\t", "\n"}

\* one character of str.lower()
LowerChar(c) ==
    CASE c = "A" -> "a" [] c = "B" -> "b" [] c = "I" -> "i" [] c = "D" -> "d"
      [] c = "N" -> "n" [] c = "E" -> "e" [] c = "X" -> "x" [] c = "C" -> "c"
      [] c = "S" -> "s" [] c = "V" -> "v" [] c = "L" -> "l" [] c = "R" -> "r"
      [] OTHER -> c

RECURSIVE LStrip(_)
LStrip(s) == IF s # <<>> /\ Head(s) \in Whitespace THEN LStrip(Tail(s)) ELSE s

RECURSIVE RStrip(_)
RStrip(s) ==
    IF s # <<>> /\ s[Len(s)] \in Whitespace
    THEN RStrip(SubSeq(s, 1, Len(s) - 1)) ELSE s

StrStrip(s) == RStrip(LStrip(s))

StrLower(s) == [i \in 1..Len(s) |-> LowerChar(s[i])]

\* str.replace(" ", "_")
StrReplaceSpace(s) == [i \in 1..Len(s) |-> IF s[i] = " " THEN "_" ELSE s[i]]

-----------------------------------------------------------------------------
(* DataProcessor *)

\* variant: the column lists are compared as sets
ColumnsDiffer_AsSets(dfs) ==
    {i \in 2..Len(dfs) : Range(dfs[i].columns) # Range(dfs[1].columns)}

\* the tables after the first whose column list differs from the first's
\* (the test of the validation loop: df.columns != first_columns)
ColumnsDiffer(dfs) == {i \in 2..Len(dfs) : dfs[i].columns # dfs[1].columns}

\* the ValueError the validation loop raises for table i (1-based, as in the
\* message), with the two set differences the message lists
ColumnsDifferError(dfs, i) ==
    LET first_columns == dfs[1].columns
        missing_in_current == Range(first_columns) \ Range(dfs[i].columns)
        extra_in_current == Range(dfs[i].columns) \ Range(first_columns)
    IN [df |-> NoTable,
        error |-> [extra |-> extra_in_current,
                   index |-> i,
                   missing |-> missing_in_current,
                   reason |-> "columns_differ",
                   type |-> "ValueError"],
        status |-> "error"]

\* variant: the tables are passed on without a source column
AddSourceColumns_None(dfs, source_names, source_column_name) == dfs

\* variant: every table gets the first label
AddSourceColumns_FirstLabel(dfs, source_names, source_column_name) ==
    [i \in 1..Len(dfs) |->
        PlWithLiteral(dfs[i], source_column_name, source_names[1])]

\* the loop that adds the source column to every table
AddSourceColumns(dfs, source_names, source_column_name) ==
    [i \in 1..Len(dfs) |->
        PlWithLiteral(dfs[i], source_column_name, source_names[i])]

\* variant: the counts are compared before the list is tested for emptiness
merge_identical_dataframes_CountFirst(dfs, source_names, source_column_name) ==
    IF Len(dfs) # Len(source_names) THEN Raise("ValueError", "count_mismatch")
    ELSE IF dfs = <<>> THEN Raise("ValueError", "no_dataframes")
    ELSE IF ColumnsDiffer(dfs) # {}
         THEN ColumnsDifferError(dfs, Min(ColumnsDiffer(dfs)))
         ELSE PlConcat(AddSourceColumns(dfs, source_names, source_column_name))

\* variant: the columns are validated before the counts are compared
merge_identical_dataframes_ColumnsFirst(dfs, source_names, source_column_name) ==
    IF dfs = <<>> THEN Raise("ValueError", "no_dataframes")
    ELSE IF ColumnsDiffer(dfs) # {}
         THEN ColumnsDifferError(dfs, Min(ColumnsDiffer(dfs)))
    ELSE IF Len(dfs) # Len(source_names) THEN Raise("ValueError", "count_mismatch")
         ELSE PlConcat(AddSourceColumns(dfs, source_names, source_column_name))

\* DataProcessor.merge_identical_dataframes(dfs, source_names, source_column_name)
merge_identical_dataframes(dfs, source_names, source_column_name) ==
    IF dfs = <<>> THEN Raise("ValueError", "no_dataframes")
    ELSE IF Len(dfs) # Len(source_names) THEN Raise("ValueError", "count_mismatch")
    ELSE IF ColumnsDiffer(dfs) # {}
         \* the loop raises at the first table that differs from the first
         THEN ColumnsDifferError(dfs, Min(ColumnsDiffer(dfs)))
         ELSE PlConcat(AddSourceColumns(dfs, source_names, source_column_name))

\* DataProcessor.get_common_columns: the set whose list() is returned
CommonColumnSet(dfs) ==
    IF dfs = <<>> THEN {}
    ELSE {c \in Range(dfs[1].columns) :
             \A i \in 2..Len(dfs) : c \in Range(dfs[i].columns)}

\* DataProcessor.get_common_columns: list(common_cols) lists a set, in an
\* order the language does not fix (string hashing is seeded per process);
\* every order is a possible return value.
get_common_columns(dfs) ==
    LET S == CommonColumnSet(dfs) IN
    {s \in [1..Cardinality(S) -> S] : Range(s) = S}

\* one entry of standardize_columns' column_mapping
StandardName(col) == StrReplaceSpace(StrLower(StrStrip(col)))

\* DataProcessor.standardize_columns: df.rename(column_mapping); polars
\* refuses a rename that leaves two columns with one name.
standardize_columns(df) ==
    LET renamed == [k \in 1..Len(df.columns) |-> StandardName(df.columns[k])] IN
    IF \E j, k \in 1..Len(renamed) : j # k /\ renamed[j] = renamed[k]
    THEN Raise("DuplicateError", "rename_duplicate")
    ELSE Return([df EXCEPT !.columns = renamed])

\* df.select(names): the named columns in the order given; an unknown name
\* raises, and no name gives the empty frame.
PlSelect(df, names) ==
    IF \E k \in 1..Len(names) : names[k] \notin Range(df.columns)
    THEN Raise("ColumnNotFoundError", "select_unknown")
    ELSE IF names = <<>> THEN Return(NoTable)
    ELSE Return([columns |-> names,
                 dtypes  |-> [k \in 1..Len(names) |-> df.dtypes[ColIndex(df, names[k])]],
                 rows    |-> [r \in 1..Len(df.rows) |->
                                 [k \in 1..Len(names) |->
                                     df.rows[r][ColIndex(df, names[k])]]]])

\* the body of merge_dataframes' loop for one table
StandardizeAndSelect(df, common_columns) ==
    LET std == standardize_columns(df) IN
    IF std.status = "error" THEN std ELSE PlSelect(std.df, common_columns)

\* DataProcessor.merge_dataframes(dfs), common_columns being the list that
\* get_common_columns returned
merge_dataframes(dfs, common_columns) ==
    IF dfs = <<>> THEN Raise("ValueError", "no_dataframes")
    ELSE IF Len(dfs) = 1 THEN Return(dfs[1])
    ELSE
      LET standardized == [i \in 1..Len(dfs) |->
                              StandardizeAndSelect(dfs[i], common_columns)]
          failed == {i \in 1..Len(dfs) : standardized[i].status = "error"}
      IN IF failed # {} THEN standardized[Min(failed)]
         ELSE PlConcat([i \in 1..Len(dfs) |-> standardized[i].df])

-----------------------------------------------------------------------------
(* Inputs *)

A_ == <<"A">>

\* column names of the tables handed to merge_identical_dataframes
ColNames == {a_, A_, DEFAULT_SOURCE_COLUMN}

\* column names of the tables handed to merge_dataframes
CommonColNames == {a_, A_, b_}

\* provenance labels
Labels == {<<"f">>, <<"g">>}

\* the shape of an input table: its column names, the kind of its columns
\* and its number of rows
ShapesOver(names, maxRows) ==
    [columns : DistinctSeqs(names, 1, MaxCols), kind : Kinds, nrows : 0..maxRows]

\* input table number i of the given shape
MkTable(i, sh) ==
    [columns |-> sh.columns,
     dtypes  |-> [k \in 1..Len(sh.columns) |-> sh.kind],
     rows    |-> [r \in 1..sh.nrows |->
                    [k \in 1..Len(sh.columns) |->
                        <<i, r, sh.columns[k]>>]]]

TableLists(shapes, maxTables) ==
    {[i \in 1..Len(s) |-> MkTable(i, s[i])] : s \in SeqsBetween(shapes, 0, maxTables)}

NoCall == [dfs |-> <<>>, op |-> "none", source_names |-> <<>>]

NoArgs == [called |-> FALSE, dfs |-> <<>>, source_names |-> <<>>]

-----------------------------------------------------------------------------
(* File names: os.path.splitext, str.endswith, str(int) *)

\* str.endswith
EndsWith(s, suffix) ==
    /\ Len(suffix) <= Len(s)
    /\ SubSeq(s, Len(s) - Len(suffix) + 1, Len(s)) = suffix

\* str.rfind of one character, 1-based (0 when absent)
RFind(s, c) ==
    IF \E i \in 1..Len(s) : s[i] = c
    THEN CHOOSE i \in 1..Len(s) : s[i] = c /\ \A j \in (i + 1)..Len(s) : s[j] # c
    ELSE 0

\* os.path.splitext(p)[0] (posixpath/genericpath._splitext): the extension
\* starts at the last dot of the last path component, leading dots of that
\* component not counted.
SplitextRoot(p) ==
    LET sepIndex == RFind(p, "/")
        dotIndex == RFind(p, ".")
    IN IF /\ dotIndex > sepIndex
          /\ \E i \in (sepIndex + 1)..(dotIndex - 1) : p[i] # "."
       THEN SubSeq(p, 1, dotIndex - 1)
       ELSE p

DigitChars == <<"0", "1", "2", "3", "4", "5", "6", "7", "8", "9">>

\* str(n) for a natural number n
RECURSIVE IntToStr(_)
IntToStr(n) ==
    IF n < 10 THEN <<DigitChars[n + 1]>>
    ELSE IntToStr(n \div 10) \o <<DigitChars[(n % 10) + 1]>>

\* the text "_" U+5DE5 U+4F5C U+8868 that precedes the sheet ordinal
SHEET_INFIX == <<"_", "u5de5", "u4f5c", "u8868">>

-----------------------------------------------------------------------------
(* FileHandler *)

\* FileHandler.supported_formats, in list order
supported_formats == << <<".", "c", "s", "v">>, <<".", "x", "l", "s", "x">>,
                        <<".", "x", "l", "s">> >>

\* variant: the name is compared as written
detect_file_type_CaseSensitive(name) ==
    LET hits == {k \in 1..Len(supported_formats) : EndsWith(name, supported_formats[k])}
    IN IF hits = {} THEN <<>> ELSE supported_formats[Min(hits)]

\* FileHandler.detect_file_type: the first supported format the lower-cased
\* name ends with; <<>> stands for the ValueError raised when there is none
detect_file_type(name) ==
    LET filename == StrLower(name)
        hits == {k \in 1..Len(supported_formats) : EndsWith(filename, supported_formats[k])}
    IN IF hits = {} THEN <<>> ELSE supported_formats[Min(hits)]

\* the outcome of a read: the list of tables, or a raised ValueError;
\* decoded tells whether pl.read_csv or pl.read_excel was called on the file
ReadOk(dfs) == [decoded |-> TRUE, dfs |-> dfs, ok |-> TRUE, reason |-> "none"]
ReadFailed == [decoded |-> TRUE, dfs |-> <<>>, ok |-> FALSE, reason |-> "read_error"]
\* the ValueError of detect_file_type, which read_file lets through
ReadUnsupported ==
    [decoded |-> FALSE, dfs |-> <<>>, ok |-> FALSE, reason |-> "unsupported_format"]

\* FileHandler.read_csv: pl.read_csv gives the file's one table or raises
read_csv(file) ==
    IF file.decodable /\ Len(file.sheets) >= 1
    THEN ReadOk(<<file.sheets[1]>>) ELSE ReadFailed

\* FileHandler.read_excel: pl.read_excel(file, sheet_id=None) gives, by the
\* installed polars, a dict of all sheets (all_sheets) or the frame of the
\* first sheet; the code accepts both, and an exception becomes ValueError.
read_excel(file, all_sheets) ==
    IF ~file.decodable THEN ReadFailed
    ELSE IF all_sheets THEN ReadOk(file.sheets)
    ELSE IF Len(file.sheets) >= 1 THEN ReadOk(<<file.sheets[1]>>)
    ELSE ReadFailed

\* FileHandler.read_file
read_file(file, all_sheets) ==
    LET file_type == detect_file_type(file.name) IN
    IF file_type = <<>> THEN ReadUnsupported
    ELSE IF file_type = supported_formats[1] THEN read_csv(file)
    ELSE read_excel(file, all_sheets)

-----------------------------------------------------------------------------
(* MergeApp._process_and_merge_files *)

\* the source labels of one file's tables
SourceNamesOf(name, n) ==
    LET source_name == SplitextRoot(name) IN
    [j \in 1..n |->
        IF n > 1 THEN source_name \o SHEET_INFIX \o IntToStr(j) ELSE source_name]

\* variant: the loop ends at the first file whose read raises
RECURSIVE ReadLoop_AbortOnFailure(_, _, _, _)
ReadLoop_AbortOnFailure(files, i, all_sheets, acc) ==
    IF i > Len(files) THEN acc
    ELSE LET rd == read_file(files[i], all_sheets) IN
         IF rd.ok
         THEN ReadLoop_AbortOnFailure(files, i + 1, all_sheets,
                       [acc EXCEPT
                          !.all_dataframes = @ \o rd.dfs,
                          !.source_names = @ \o SourceNamesOf(files[i].name, Len(rd.dfs))])
         ELSE [acc EXCEPT !.shown = Append(@, <<"read_failed", i>>)]

\* The reading loop over uploaded_files[i..]: all_dataframes, source_names
\* and the messages shown, accumulated in upload order; a file whose read
\* raises is reported and skipped.
RECURSIVE ReadLoop(_, _, _, _)
ReadLoop(files, i, all_sheets, acc) ==
    IF i > Len(files) THEN acc
    ELSE LET rd == read_file(files[i], all_sheets) IN
         IF rd.ok
         THEN ReadLoop(files, i + 1, all_sheets,
                       [acc EXCEPT
                          !.all_dataframes = @ \o rd.dfs,
                          !.source_names = @ \o SourceNamesOf(files[i].name, Len(rd.dfs))])
         ELSE ReadLoop(files, i + 1, all_sheets,
                       [acc EXCEPT !.shown = Append(@, <<"read_failed", i>>)])

ReadAll(files, all_sheets) ==
    ReadLoop(files, 1, all_sheets,
             [all_dataframes |-> <<>>, shown |-> <<>>, source_names |-> <<>>])

\* FileValidator.validate_file_format, by which FileUploader.render keeps
\* or drops an uploaded file
validate_file_format(file) ==
    \E k \in 1..Len(supported_formats) : EndsWith(StrLower(file.name), supported_formats[k])

\* FileUploader.render: the uploaded files that pass validation, in order
\* (every uploaded file is taken to be within FileConfig.MAX_FILE_SIZE)
valid_files(files) == SelectSeq(files, validate_file_format)

\* variant: the rows of a run are added to those the session already holds
process_and_merge_files_Accumulate(files, all_sheets, old_processed_data) ==
    LET acc == ReadAll(files, all_sheets) IN
    IF acc.all_dataframes = <<>>
    THEN [merge_args |-> NoArgs,
          processed_data |-> old_processed_data,
          shown |-> Append(acc.shown, <<"no_data_read", 0>>),
          source_groups |-> {}]
    ELSE LET merged_data == merge_identical_dataframes(
                                acc.all_dataframes, acc.source_names,
                                DEFAULT_SOURCE_COLUMN)
             args == [called |-> TRUE, dfs |-> acc.all_dataframes,
                      source_names |-> acc.source_names]
             accumulated ==
                 IF old_processed_data.columns = merged_data.df.columns
                 THEN [merged_data.df EXCEPT
                          !.rows = old_processed_data.rows \o merged_data.df.rows]
                 ELSE merged_data.df
         IN IF merged_data.status = "ok"
            THEN [merge_args |-> args,
                  processed_data |-> accumulated,
                  shown |-> Append(acc.shown, <<"success", 0>>),
                  source_groups |-> PlGroupByLen(accumulated, DEFAULT_SOURCE_COLUMN)]
            ELSE [merge_args |-> args,
                  processed_data |-> old_processed_data,
                  shown |-> Append(acc.shown, <<"processing_failed", 0>>),
                  source_groups |-> {}]

\* variant: a run that fails clears processed_data
process_and_merge_files_ClearOnFailure(files, all_sheets, old_processed_data) ==
    LET acc == ReadAll(files, all_sheets) IN
    IF acc.all_dataframes = <<>>
    THEN [merge_args |-> NoArgs,
          processed_data |-> NoTable,
          shown |-> Append(acc.shown, <<"no_data_read", 0>>),
          source_groups |-> {}]
    ELSE LET merged_data == merge_identical_dataframes(
                                acc.all_dataframes, acc.source_names,
                                DEFAULT_SOURCE_COLUMN)
             args == [called |-> TRUE, dfs |-> acc.all_dataframes,
                      source_names |-> acc.source_names]
         IN IF merged_data.status = "ok"
            THEN [merge_args |-> args,
                  processed_data |-> merged_data.df,
                  shown |-> Append(acc.shown, <<"success", 0>>),
                  source_groups |-> PlGroupByLen(merged_data.df, DEFAULT_SOURCE_COLUMN)]
            ELSE [merge_args |-> args,
                  processed_data |-> NoTable,
                  shown |-> Append(acc.shown, <<"processing_failed", 0>>),
                  source_groups |-> {}]

\* MergeApp._process_and_merge_files: what the run leaves in
\* <<merge_args, processed_data, shown>>, given processed_data before it,
\* and the groups of the source statistics it displays
process_and_merge_files(files, all_sheets, old_processed_data) ==
    LET acc == ReadAll(files, all_sheets) IN
    IF acc.all_dataframes = <<>>
    THEN [merge_args |-> NoArgs,
          processed_data |-> old_processed_data,
          shown |-> Append(acc.shown, <<"no_data_read", 0>>),
          source_groups |-> {}]
    ELSE LET merged_data == merge_identical_dataframes(
                                acc.all_dataframes, acc.source_names,
                                DEFAULT_SOURCE_COLUMN)
             args == [called |-> TRUE, dfs |-> acc.all_dataframes,
                      source_names |-> acc.source_names]
         IN IF merged_data.status = "ok"
            THEN [merge_args |-> args,
                  processed_data |-> merged_data.df,
                  shown |-> Append(acc.shown, <<"success", 0>>),
                  source_groups |-> PlGroupByLen(merged_data.df, DEFAULT_SOURCE_COLUMN)]
            ELSE [merge_args |-> args,
                  processed_data |-> old_processed_data,
                  shown |-> Append(acc.shown, <<"processing_failed", 0>>),
                  source_groups |-> {}]

-----------------------------------------------------------------------------
(* Values of the session keys, the page and the container *)

\* a list of column names that may be None: an argument "list[str] | None",
\* or what SessionManager.get_state("selected_columns") returns (None when
\* the key is not in the session)
NoColumns == [is_none |-> TRUE, names |-> <<>>]

ColumnList(names) == [is_none |-> FALSE, names |-> names]

\* "if columns:" is true of a list that is not empty
Truthy(columns) == ~columns.is_none /\ columns.names # <<>>

\* the names of the registered applications (WelcomeApp.get_name and
\* MergeApp.get_name), and the None of "current_app"
WelcomeApp == "WelcomeApp"

MergeApp == "MergeApp"

AppNames == {WelcomeApp, MergeApp}

NoApp == "None"

\* the export panel of a run: whether ExportPanel.render was called, the
\* selection handed to it, and how get_export_summary and export_excel ended
NoPanel == [columns |-> NoColumns, export |-> "none", rendered |-> FALSE,
            summary |-> "none"]

\* a run of the page script: the application rendered, the exception that
\* left its render method, the value of the multiselect and of the confirm
\* button, the export panel, and the tabs rendered to their end
NoPage == [app |-> NoApp, app_error |-> "none", confirm |-> FALSE,
           export_panel |-> NoPanel, multiselect |-> <<>>, tabs |-> <<>>]

\* Container.__init__
EmptyContainer == [services |-> <<>>, singletons |-> <<>>]

-----------------------------------------------------------------------------
(* Direct calls of the DataProcessor: one call, with any arguments within  *)
(* the bounds, on a fresh processor (the processor keeps no state between  *)
(* calls: processing_steps is never written).                              *)

\* a fresh processor and a fresh session (SessionManager.init_session_state);
\* the None of processed_data is written NoTable: no merged table is without
\* columns
Init ==
    /\ call = NoCall
    /\ result = NoResult
    /\ uploaded_files = <<>>
    /\ merge_args = NoArgs
    /\ processed_data = NoTable
    /\ shown = <<>>
    /\ source_stats = <<>>
    /\ selected_columns = ColumnList(<<>>)
    /\ current_app = NoApp
    /\ page = NoPage
    /\ container = EmptyContainer
    /\ constructed = <<>>

CallMergeIdentical ==
    /\ call = NoCall
    /\ \E dfs \in TableLists(ShapesOver(ColNames, MaxRows), MaxTables),
       source_names \in SeqsBetween(Labels, 0, MaxTables) :
        /\ call' = [dfs |-> dfs, op |-> "merge_identical_dataframes",
                    source_names |-> source_names]
        /\ result' = merge_identical_dataframes(dfs, source_names, DEFAULT_SOURCE_COLUMN)
        /\ UNCHANGED <<uploaded_files, merge_args, processed_data, shown, source_stats,
                   ui_vars, container_vars>>

CallMergeDataframes ==
    /\ call = NoCall
    /\ \E dfs \in TableLists(ShapesOver(CommonColNames, MaxCommonRows), MaxCommonTables) :
      \E common_columns \in get_common_columns(dfs) :
        /\ call' = [dfs |-> dfs, op |-> "merge_dataframes", source_names |-> <<>>]
        /\ result' = merge_dataframes(dfs, common_columns)
        /\ UNCHANGED <<uploaded_files, merge_args, processed_data, shown, source_stats,
                   ui_vars, container_vars>>

Next == CallMergeIdentical \/ CallMergeDataframes

Spec == Init /\ [][Next]_vars

\* names of the files handed to FileHandler.read_file: those that end, in
\* any letter case, with a supported format
SupportedReadNames ==
    {<<"r", ".", "c", "s", "v">>, <<"R", ".", "C", "S", "V">>,
     <<"r", ".", "x", "l", "s", "x">>, <<"r", ".", "X", "l", "s">>,
     <<".", "x", "l", "s">>}

\* and those that do not
UnsupportedReadNames ==
    {<<"r", ".", "t", "x", "t">>, <<"r", "c", "s", "v">>,
     <<"r", ".", "c", "s", "v", ".", "t", "x", "t">>, <<"r", ".", "x", "l">>, <<>>}

\* shapes of the tables a file handed to read_file holds
ReadTableShapes == [columns : {<<a_>>, <<b_>>}, kind : {"String"}, nrows : 0..MaxFileRows]

\* what such a file can hold, whatever its name: nothing a reader can
\* decode, or up to MaxSheets tables (one table when it is read as
\* delimited text)
ReadFileShapes ==
    {[decodable |-> FALSE, name |-> n, sheets |-> <<>>] :
        n \in SupportedReadNames \cup UnsupportedReadNames}
    \cup {fs \in [decodable : {TRUE},
                  name : SupportedReadNames \cup UnsupportedReadNames,
                  sheets : SeqsBetween(ReadTableShapes, 0, MaxSheets)] :
             detect_file_type(fs.name) = supported_formats[1] => Len(fs.sheets) = 1}

\* FileHandler.read_file(file) called directly
CallReadFile ==
    /\ call = NoCall
    /\ \E fs \in ReadFileShapes, all_sheets \in BOOLEAN :
         LET file == [decodable |-> fs.decodable, name |-> fs.name,
                      sheets |-> [j \in 1..Len(fs.sheets) |-> MkTable(j, fs.sheets[j])]]
         IN /\ call' = [all_sheets |-> all_sheets, file |-> file, op |-> "read_file"]
            /\ result' = read_file(file, all_sheets)
    /\ UNCHANGED <<uploaded_files, merge_args, processed_data, shown, source_stats,
                   ui_vars, container_vars>>

NextRead == CallReadFile

SpecRead == Init /\ [][NextRead]_vars

-----------------------------------------------------------------------------
(* Column statistics and data validation.  A cell of the tables analysed   *)
(* is null or holds a number; in a String column the number stands for a   *)
(* string.  A float is written as the fraction it approximates.            *)

NullCell == [null |-> TRUE, value |-> 0]

ValueCell(n) == [null |-> FALSE, value |-> n]

RECURSIVE GCD(_, _)
GCD(m, n) == IF n = 0 THEN m ELSE GCD(n, m % n)

\* the fraction n / d (d > 0) in lowest terms
Frac(n, d) == [den |-> d \div GCD(n, d), num |-> n \div GCD(n, d)]

\* the outcome of a division by zero
ZeroDivisionError == [den |-> 0, num |-> 0]

\* a / b
TrueDiv(a, b) == IF b = 0 THEN ZeroDivisionError ELSE Frac(a, b)

\* q * 100
Times100(q) == IF q = ZeroDivisionError THEN q ELSE Frac(q.num * 100, q.den)

\* df[col]: the cells of column k
ColumnData(df, k) == [r \in 1..Height(df) |-> df.rows[r][k]]

\* Series.null_count()
NullCount(col_data) == Cardinality({r \in 1..Len(col_data) : col_data[r].null})

\* Series.n_unique(): null counts as one value
NUnique(col_data) == Cardinality(Range(col_data))

\* the values of a column that are not null
NonNull(col_data) == SelectSeq(col_data, LAMBDA c : ~c.null)

\* the i-th smallest of the values
IthSmallest(vals, i) ==
    CHOOSE v \in {vals[j].value : j \in 1..Len(vals)} :
        /\ Cardinality({j \in 1..Len(vals) : vals[j].value < v}) < i
        /\ i <= Cardinality({j \in 1..Len(vals) : vals[j].value <= v})

\* Series.min(), max(), mean(), median(): None (NullCell) without values
NumericStatistics(col_data) ==
    LET vals == NonNull(col_data)
        n == Len(vals)
    IN IF n = 0
       THEN [max |-> NullCell, mean |-> NullCell, median |-> NullCell, min |-> NullCell]
       ELSE [max |-> ValueCell(IthSmallest(vals, n)),
             mean |-> Frac(SumSeq([j \in 1..n |-> vals[j].value]), n),
             median |-> IF n % 2 = 1
                        THEN Frac(IthSmallest(vals, (n + 1) \div 2), 1)
                        ELSE Frac(IthSmallest(vals, n \div 2)
                                    + IthSmallest(vals, n \div 2 + 1), 2),
             min |-> ValueCell(IthSmallest(vals, 1))]

\* variant: the percentage is computed whatever the number of rows
ColumnStatistics_Unguarded(df, k) ==
    LET col_data == ColumnData(df, k) IN
    [dtype |-> df.dtypes[k],
     null_count |-> NullCount(col_data),
     null_percentage |-> Times100(TrueDiv(NullCount(col_data), Height(df))),
     numeric |-> IF df.dtypes[k] = "Int64" THEN NumericStatistics(col_data)
                 ELSE NumericStatistics(<<>>),
     unique_count |-> NUnique(col_data)]

\* stats[col] of get_column_statistics for column k; numeric is used for a
\* numeric column alone
ColumnStatistics(df, k) ==
    LET col_data == ColumnData(df, k) IN
    [dtype |-> df.dtypes[k],
     null_count |-> NullCount(col_data),
     null_percentage |-> IF Height(df) > 0
                         THEN Times100(TrueDiv(NullCount(col_data), Height(df)))
                         ELSE Frac(0, 1),
     numeric |-> IF df.dtypes[k] = "Int64" THEN NumericStatistics(col_data)
                 ELSE NumericStatistics(<<>>),
     unique_count |-> NUnique(col_data)]

\* DataProcessor.get_column_statistics: the statistics of the columns, in
\* column order, or the exception raised
get_column_statistics(df) ==
    LET stats == [k \in 1..Len(df.columns) |-> ColumnStatistics(df, k)] IN
    IF \E k \in 1..Len(stats) : stats[k].null_percentage = ZeroDivisionError
    THEN [error |-> "ZeroDivisionError", null_percentage |-> ZeroDivisionError,
          report |-> <<>>, status |-> "error"]
    ELSE [error |-> "none", null_percentage |-> Frac(0, 1),
          report |-> stats, status |-> "ok"]

\* DataProcessor.validate_data: the null counts of the report (row_count,
\* column_count and data_types are those of df; estimated_size is left out)
\* and the overall null percentage it logs.  For a table with rows the
\* percentage is a one-row Series; series_formats tells whether the installed
\* polars formats a Series with the format ".2f" or raises TypeError.
validate_data(df, series_formats) ==
    LET null_counts == [k \in 1..Len(df.columns) |-> NullCount(ColumnData(df, k))]
        total_nulls == SumSeq(null_counts)
        null_percentage ==
            IF Height(df) > 0
            THEN Times100(TrueDiv(total_nulls, Height(df) * Len(df.columns)))
            ELSE Frac(0, 1)
    IN IF null_percentage = ZeroDivisionError
       THEN [error |-> "ZeroDivisionError", null_percentage |-> null_percentage,
             report |-> <<>>, status |-> "error"]
       ELSE IF Height(df) > 0 /\ ~series_formats
       THEN [error |-> "TypeError", null_percentage |-> null_percentage,
             report |-> <<>>, status |-> "error"]
       ELSE [error |-> "none", null_percentage |-> null_percentage,
             report |-> null_counts, status |-> "ok"]

StatCells == {NullCell} \cup {ValueCell(n) : n \in 1..MaxStatValue}

\* the tables analysed: up to MaxStatCols columns and MaxStatRows rows; a
\* table without columns has no rows
StatTables ==
    UNION {[columns : {cols}, dtypes : [1..Len(cols) -> Kinds],
            rows : SeqsBetween([1..Len(cols) -> StatCells], 0,
                               IF cols = <<>> THEN 0 ELSE MaxStatRows)] :
           cols \in DistinctSeqs({a_, b_}, 0, MaxStatCols)}

CallGetColumnStatistics ==
    /\ call = NoCall
    /\ \E df \in StatTables :
         /\ call' = [df |-> df, op |-> "get_column_statistics"]
         /\ result' = get_column_statistics(df)
    /\ UNCHANGED <<uploaded_files, merge_args, processed_data, shown, source_stats,
                   ui_vars, container_vars>>

CallValidateData ==
    /\ call = NoCall
    /\ \E df \in StatTables, series_formats \in BOOLEAN :
         /\ call' = [df |-> df, op |-> "validate_data"]
         /\ result' = validate_data(df, series_formats)
    /\ UNCHANGED <<uploaded_files, merge_args, processed_data, shown, source_stats,
                   ui_vars, container_vars>>

NextStats == CallGetColumnStatistics \/ CallValidateData

SpecStats == Init /\ [][NextStats]_vars

-----------------------------------------------------------------------------
(* DataValidator.validate_columns.  Its df argument is None or a table, of *)
(* which it reads the columns alone.                                       *)

None == [columns |-> <<>>, is_none |-> TRUE]

DataFrameWith(columns) == [columns |-> columns, is_none |-> FALSE]

\* variant: the columns of the table that are not required are listed
validate_columns_ExistingNotRequired(df, required_columns) ==
    IF df.is_none
    THEN [existing_columns |-> <<>>, is_valid |-> FALSE,
          missing_columns |-> required_columns]
    ELSE LET missing_columns ==
                 SelectSeq(df.columns, LAMBDA col : col \notin Range(required_columns))
         IN [existing_columns |-> df.columns,
             is_valid |-> Len(missing_columns) = 0,
             missing_columns |-> missing_columns]

\* DataValidator.validate_columns(df, required_columns)
validate_columns(df, required_columns) ==
    IF df.is_none
    THEN [existing_columns |-> <<>>, is_valid |-> FALSE,
          missing_columns |-> required_columns]
    ELSE LET existing_columns == df.columns
             missing_columns ==
                 SelectSeq(required_columns, LAMBDA col : col \notin Range(existing_columns))
         IN [existing_columns |-> existing_columns,
             is_valid |-> Len(missing_columns) = 0,
             missing_columns |-> missing_columns]

\* column names of the tables validated and of the required lists
SchemaColNames == {a_, A_, b_}

CallValidateColumns ==
    /\ call = NoCall
    /\ \E df \in {None} \cup {DataFrameWith(cols) :
                                 cols \in DistinctSeqs(SchemaColNames, 0, MaxSchemaCols)},
          required_columns \in SeqsBetween(SchemaColNames, 0, MaxRequired) :
         /\ call' = [df |-> df, op |-> "validate_columns",
                     required_columns |-> required_columns]
         /\ result' = validate_columns(df, required_columns)
    /\ UNCHANGED <<uploaded_files, merge_args, processed_data, shown, source_stats,
                   ui_vars, container_vars>>

NextValidate == CallValidateColumns

SpecValidate == Init /\ [][NextValidate]_vars

\* the common-column merge alone
NextCommon == CallMergeDataframes

SpecCommon == Init /\ [][NextCommon]_vars

-----------------------------------------------------------------------------
(* The file upload tab of the merge application *)

NameOf(stem, ext) == stem \o ext

\* names of uploaded files
FileNames ==
    {NameOf(<<"r">>, supported_formats[1]), NameOf(<<"r">>, supported_formats[2]),
     NameOf(<<"q">>, supported_formats[2]), NameOf(<<"r">>, <<".", "t", "x", "t">>)}

\* shapes of the tables held by uploaded files
FileTableShapes ==
    [columns : {<<a_>>, <<b_>>}, kind : {"String"}, nrows : 0..MaxFileRows]

\* what a file of a given name can hold: a delimited-text file one table, a
\* spreadsheet up to MaxSheets sheets; an undecodable file nothing readable
FileShapes ==
    {[decodable |-> FALSE, name |-> n, sheets |-> <<>>] : n \in FileNames}
    \cup {fs \in [decodable : {TRUE}, name : FileNames,
                  sheets : SeqsBetween(FileTableShapes, 0, MaxSheets)] :
             /\ detect_file_type(fs.name) = supported_formats[1] => Len(fs.sheets) = 1
             /\ detect_file_type(fs.name) = <<>> => fs.sheets = <<>>}

\* uploaded file number i of the given shape; its tables are numbered 10*i + j
MkFile(i, fs) ==
    [decodable |-> fs.decodable, name |-> fs.name,
     sheets |-> [j \in 1..Len(fs.sheets) |-> MkTable(10 * i + j, fs.sheets[j])]]

\* the batches of up to n uploaded files
BatchesUpTo(n) ==
    {[i \in 1..Len(b) |-> MkFile(i, b[i])] : b \in SeqsBetween(FileShapes, 0, n)}

\* MergeApp._render_file_upload_tab with the given uploads: what one run of
\* the page script does to the session and puts on the page
FileUploadTab(files, all_sheets) ==
    LET kept == valid_files(files) IN
    IF kept = <<>>
    THEN /\ shown' = <<<<"please_upload", 0>>>>
         /\ source_stats' = <<>>
         /\ UNCHANGED <<uploaded_files, merge_args, processed_data>>
    ELSE LET run == process_and_merge_files(kept, all_sheets, processed_data) IN
         /\ uploaded_files' = kept
         /\ merge_args' = run.merge_args
         /\ processed_data' = run.processed_data
         /\ shown' = run.shown
         /\ source_stats' \in PlSortLenDescending(run.source_groups)

\* MergeApp._render_file_upload_tab on a fresh session
RenderFileUploadTab ==
    /\ shown = <<>>
    /\ \E files \in BatchesUpTo(MaxFiles), all_sheets \in BOOLEAN : FileUploadTab(files, all_sheets)
    /\ UNCHANGED <<call, result, ui_vars, container_vars>>

NextIngest == RenderFileUploadTab

SpecIngest == Init /\ [][NextIngest]_vars

\* The page script runs again at every interaction: the upload tab rendered
\* run after run in one session, with up to MaxRerunFiles files uploaded at
\* each run.
RerunFileUploadTab ==
    /\ \E files \in BatchesUpTo(MaxRerunFiles), all_sheets \in BOOLEAN :
         FileUploadTab(files, all_sheets)
    /\ UNCHANGED <<call, result, ui_vars, container_vars>>

NextSession == RerunFileUploadTab

SpecSession == Init /\ [][NextSession]_vars


-----------------------------------------------------------------------------
(* ExportHandler: export_excel and get_export_summary *)

\* variant: only the first absent column is reported
MissingColumns_First(df, names) ==
    IF \E k \in 1..Len(names) : names[k] \notin Range(df.columns)
    THEN <<names[Min({k \in 1..Len(names) : names[k] \notin Range(df.columns)})]>>
    ELSE <<>>

\* [col for col in columns if col not in df.columns]
RECURSIVE MissingColumns(_, _)
MissingColumns(df, names) ==
    IF names = <<>> THEN <<>>
    ELSE IF Head(names) \notin Range(df.columns)
         THEN <<Head(names)>> \o MissingColumns(df, Tail(names))
         ELSE MissingColumns(df, Tail(names))

NoSummary == [selected_columns |-> <<>>, total_columns |-> 0, total_rows |-> 0]

\* an export call raised: no bytes and no summary come back; named holds the
\* column names the message of the exception carries
ExportRaise(type, reason, named) ==
    [error |-> [named |-> named, reason |-> reason, type |-> type],
     excel_data |-> NoTable,
     status |-> "error",
     summary |-> NoSummary,
     written |-> FALSE]

\* export_excel returned the bytes of a workbook holding df_to_export
ExportReturnBytes(df_to_export) ==
    [error |-> [named |-> <<>>, reason |-> "none", type |-> "none"],
     excel_data |-> df_to_export,
     status |-> "ok",
     summary |-> NoSummary,
     written |-> TRUE]

ExportReturnSummary(summary) ==
    [error |-> [named |-> <<>>, reason |-> "none", type |-> "none"],
     excel_data |-> NoTable,
     status |-> "ok",
     summary |-> summary,
     written |-> FALSE]

\* ExportHandler.export_excel(df, columns): the ValueError raised for absent
\* columns is caught by the handler's own except clause and raised again as
\* a ValueError whose message ends with the first one's, so it still carries
\* the list of absent columns; the BytesIO is created after the validation.
export_excel(df, columns) ==
    IF Truthy(columns)
    THEN LET missing_columns == MissingColumns(df, columns.names) IN
         IF missing_columns # <<>>
         THEN ExportRaise("ValueError", "columns_do_not_exist", missing_columns)
         ELSE ExportReturnBytes(PlSelect(df, columns.names).df)
    ELSE ExportReturnBytes(df)

\* variant: the summary lists the selected columns in the table's order
get_export_summary_TableOrder(df, selected) ==
    LET export_df == IF Truthy(selected)
                     THEN PlSelect(df, selected.names)
                     ELSE Return(df)
    IN IF export_df.status = "error"
       THEN ExportRaise(export_df.error.type, export_df.error.reason, <<>>)
       ELSE ExportReturnSummary(
                [selected_columns |->
                     LET kept == {k \in 1..Len(df.columns) :
                                     Truthy(selected) =>
                                         df.columns[k] \in Range(selected.names)}
                     IN [n \in 1..Cardinality(kept) |->
                            df.columns[CHOOSE k \in kept :
                                Cardinality({j \in kept : j < k}) = n - 1]],
                 total_columns |-> Len(export_df.df.columns),
                 total_rows |-> Height(export_df.df)])

\* ExportHandler.get_export_summary(df, selected_columns), the argument
\* being written selected: the counts and the
\* list of selected columns (the estimated size in bytes is left out: the
\* model has no byte sizes); an exception of df.select is logged and raised
\* again.
get_export_summary(df, selected) ==
    LET export_df == IF Truthy(selected)
                     THEN PlSelect(df, selected.names)
                     ELSE Return(df)
    IN IF export_df.status = "error"
       THEN ExportRaise(export_df.error.type, export_df.error.reason, <<>>)
       ELSE ExportReturnSummary(
                [selected_columns |-> IF Truthy(selected)
                                      THEN selected.names
                                      ELSE df.columns,
                 total_columns |-> Len(export_df.df.columns),
                 total_rows |-> Height(export_df.df)])

\* column names of the tables handed to the export handler, and the names a
\* selection can hold (A_ is a column of none of the tables)
ExportColNames == {a_, b_}

SelectableNames == {a_, b_, A_, DEFAULT_SOURCE_COLUMN}

ExportTables ==
    {MkTable(1, sh) : sh \in ShapesOver(ExportColNames, MaxExportRows)}

\* a selection holds each name once: None, the empty list, or up to
\* MaxSelected names in the order they were chosen
Selections ==
    {NoColumns} \cup {ColumnList(s) : s \in DistinctSeqs(SelectableNames, 0, MaxSelected)}

CallExportExcel ==
    /\ call = NoCall
    /\ \E df \in ExportTables, columns \in Selections :
        /\ call' = [columns |-> columns, df |-> df, op |-> "export_excel"]
        /\ result' = export_excel(df, columns)
    /\ UNCHANGED <<uploaded_files, merge_args, processed_data, shown, source_stats,
                   ui_vars, container_vars>>

CallGetExportSummary ==
    /\ call = NoCall
    /\ \E df \in ExportTables, selected \in Selections :
        /\ call' = [columns |-> selected, df |-> df, op |-> "get_export_summary"]
        /\ result' = get_export_summary(df, selected)
    /\ UNCHANGED <<uploaded_files, merge_args, processed_data, shown, source_stats,
                   ui_vars, container_vars>>

NextExport == CallExportExcel \/ CallGetExportSummary

SpecExport == Init /\ [][NextExport]_vars


-----------------------------------------------------------------------------
(* SessionManager.clear_state *)

\* a keys argument: None, or a list of key names
NoKeys == [is_none |-> TRUE, names |-> <<>>]

KeyList(names) == [is_none |-> FALSE, names |-> names]

\* SessionManager.clear_state(keys) on the session state `state`, a function
\* from the keys it holds to their values: what the session state is after
\* the call. "if keys:" sends the empty list to the branch of None.
clear_state(state, keys) ==
    IF Truthy(keys)
    THEN [k \in DOMAIN state \ Range(keys.names) |-> state[k]]
    ELSE [k \in {} |-> 0]

\* keys a session state holds; "error_message" is a key of none of the
\* states drawn
StateKeys == {"current_app", "processed_data", "selected_columns"}

ClearableKeys == StateKeys \cup {"error_message"}

SessionStates ==
    UNION {[present -> 1..MaxStateValue] : present \in SUBSET StateKeys}

KeysArguments ==
    {NoKeys} \cup {KeyList(s) : s \in SeqsBetween(ClearableKeys, 0, MaxKeys)}

CallClearState ==
    /\ call = NoCall
    /\ \E state \in SessionStates, keys \in KeysArguments :
        /\ call' = [keys |-> keys, op |-> "clear_state", state |-> state]
        /\ result' = [state |-> clear_state(state, keys), status |-> "ok"]
    /\ UNCHANGED <<uploaded_files, merge_args, processed_data, shown, source_stats,
                   ui_vars, container_vars>>

NextState == CallClearState

SpecState == Init /\ [][NextState]_vars


-----------------------------------------------------------------------------
(* Container: register, get and clear, called in any order *)

ServiceNames == {"file_handler", "file_validator"}

ServiceClasses == {"FileHandler", "FileValidator"}

\* d[k] = v on a dict
DictSet(d, k, v) == [x \in DOMAIN d \cup {k} |-> IF x = k THEN v ELSE d[x]]

NoInstance == [cls |-> "none", id |-> 0]

\* service_class(): a new object, told from every other by its id
NewInstance(service_class) == [cls |-> service_class, id |-> Len(constructed) + 1]

\* Container.register(name, service_class, singleton): the registration is
\* written over the one of the same name; _singletons is not touched
Register ==
    \E name \in ServiceNames, service_class \in ServiceClasses, singleton \in BOOLEAN :
        /\ container' = [container EXCEPT !.services =
                            DictSet(@, name, [service_class |-> service_class,
                                              singleton |-> singleton])]
        /\ call' = [name |-> name, op |-> "register"]
        /\ result' = [error |-> "none", instance |-> NoInstance, status |-> "ok"]
        /\ UNCHANGED <<constructed, uploaded_files, merge_args, processed_data,
                       shown, source_stats, ui_vars>>

\* Container.get(name)
Get ==
    \E name \in ServiceNames :
        /\ call' = [name |-> name, op |-> "get"]
        /\ IF name \notin DOMAIN container.services
           THEN /\ result' = [error |-> "ValueError", instance |-> NoInstance,
                              status |-> "error"]
                /\ UNCHANGED <<container, constructed>>
           ELSE LET service_class == container.services[name].service_class
                    is_singleton == container.services[name].singleton
                IN IF is_singleton /\ name \in DOMAIN container.singletons
                   THEN /\ result' = [error |-> "none",
                                      instance |-> container.singletons[name],
                                      status |-> "ok"]
                        /\ UNCHANGED <<container, constructed>>
                   ELSE /\ Len(constructed) < MaxInstances
                        /\ constructed' = Append(constructed, NewInstance(service_class))
                        /\ result' = [error |-> "none",
                                      instance |-> NewInstance(service_class),
                                      status |-> "ok"]
                        /\ container' =
                             IF is_singleton
                             THEN [container EXCEPT !.singletons =
                                      DictSet(@, name, NewInstance(service_class))]
                             ELSE container
        /\ UNCHANGED <<uploaded_files, merge_args, processed_data, shown,
                       source_stats, ui_vars>>

\* Container.clear()
Clear ==
    /\ container' = EmptyContainer
    /\ call' = [name |-> "none", op |-> "clear"]
    /\ result' = [error |-> "none", instance |-> NoInstance, status |-> "ok"]
    /\ UNCHANGED <<constructed, uploaded_files, merge_args, processed_data,
                   shown, source_stats, ui_vars>>

NextContainer == Register \/ Get \/ Clear

SpecContainer == Init /\ [][NextContainer]_vars


-----------------------------------------------------------------------------
(* The page script: MainUI.render, run again at every interaction *)

\* the session state as the dict st.session_state: the keys it holds with
\* their values ("selected_columns" is the one key the code ever deletes)
SessionState(app, files, data, selected) ==
    [k \in {"current_app", "uploaded_files", "processed_data"}
           \cup (IF selected.is_none THEN {} ELSE {"selected_columns"}) |->
        CASE k = "current_app" -> app
          [] k = "uploaded_files" -> files
          [] k = "processed_data" -> data
          [] k = "selected_columns" -> selected]

\* SessionManager.get_state("selected_columns"): None when the key is not in
\* the session
get_selected_columns(session) ==
    IF "selected_columns" \in DOMAIN session
    THEN session["selected_columns"] ELSE NoColumns

\* SessionManager.init_session_state: a key that is not in the session gets
\* its default
init_session_state(session) ==
    IF "selected_columns" \in DOMAIN session THEN session
    ELSE DictSet(session, "selected_columns", ColumnList(<<>>))

\* variant: current_app is set and the selection cleared at every run
render_app_selector_AlwaysClears(session, selected_app_name) ==
    clear_state(DictSet(session, "current_app", selected_app_name),
                KeyList(<<"selected_columns">>))

\* MainUI._render_app_selector with the selectbox at selected_app_name: the
\* session state it leaves
render_app_selector(session, selected_app_name) ==
    IF selected_app_name # session["current_app"]
    THEN clear_state(DictSet(session, "current_app", selected_app_name),
                     KeyList(<<"selected_columns">>))
    ELSE session

\* DataPreview.render_column_info(df): the null ratio shown for each column,
\* null_count / len(df) * 100; the cells read from the files of the model
\* are values, none is null
render_column_info(df) ==
    [k \in 1..Len(df.columns) |-> Times100(TrueDiv(0, Height(df)))]

\* MergeApp._render_data_preview_tab: the exception that leaves it, and the
\* null ratios it shows
render_data_preview_tab(df) ==
    IF df = NoTable
    THEN [error |-> "none", null_ratios |-> <<>>]
    ELSE LET ratios == render_column_info(df) IN
         IF \E k \in 1..Len(ratios) : ratios[k] = ZeroDivisionError
         THEN [error |-> "ZeroDivisionError", null_ratios |-> <<>>]
         ELSE [error |-> "none", null_ratios |-> ratios]

\* the values the multiselect of the column selection form can have: lists
\* of columns of the table, each column once
MultiselectValues(df) == DistinctSeqs(Range(df.columns), 0, Len(df.columns))

\* variant: the selection is saved whether or not the form was confirmed
render_column_selection_tab_Unconfirmed(df, selected, multiselect, confirm_button) ==
    IF df = NoTable THEN selected
    ELSE IF multiselect # <<>> THEN ColumnList(multiselect)
    ELSE selected

\* MergeApp._render_column_selection_tab with ColumnSelector.
\* render_with_preview: the value of "selected_columns" it leaves
\* (show_column_info guards its division with len(df) > 0)
render_column_selection_tab(df, selected, multiselect, confirm_button) ==
    IF df = NoTable THEN selected
    ELSE IF confirm_button /\ multiselect # <<>> THEN ColumnList(multiselect)
    ELSE selected

\* ExportPanel.render(df, selected) and, when the export button is clicked,
\* ExportPanel._handle_export
render_export_panel(df, selected, export_button) ==
    LET export_summary == get_export_summary(df, selected) IN
    [columns |-> selected,
     export |-> IF export_summary.status = "ok" /\ export_button
                THEN export_excel(df, selected).status
                ELSE "none",
     rendered |-> TRUE,
     summary |-> export_summary.status]

\* MergeApp._render_export_tab
render_export_tab(df, selected, export_button) ==
    IF df = NoTable THEN NoPanel
    ELSE IF ~Truthy(selected) THEN NoPanel
    ELSE render_export_panel(df, selected, export_button)

\* what a file uploaded to the page holds: a delimited-text file of one
\* table, or nothing readable
PageFileShapes ==
    {[decodable |-> FALSE, name |-> NameOf(<<"r">>, supported_formats[1]),
      sheets |-> <<>>]}
    \cup [decodable : {TRUE}, name : {NameOf(<<"r">>, supported_formats[1])},
          sheets : SeqsBetween(FileTableShapes, 1, 1)]

PageBatchesUpTo(n) ==
    {[i \in 1..Len(b) |-> MkFile(i, b[i])] : b \in SeqsBetween(PageFileShapes, 0, n)}

\* MergeApp.render after the selector left selected in "selected_columns":
\* the four tabs in their order; an exception that leaves a tab leaves
\* render, so the tabs after it are not rendered (MainUI._render_selected_app
\* shows it)
RenderMergeApp(selected) ==
    \E files \in PageBatchesUpTo(MaxPageFiles), all_sheets \in BOOLEAN :
        /\ FileUploadTab(files, all_sheets)
        /\ LET preview == render_data_preview_tab(processed_data') IN
           IF preview.error # "none"
           THEN /\ selected_columns' = selected
                /\ page' = [app |-> MergeApp, app_error |-> preview.error,
                            confirm |-> FALSE, export_panel |-> NoPanel,
                            multiselect |-> <<>>, tabs |-> <<"upload">>]
           ELSE \E multiselect \in MultiselectValues(processed_data'),
                   confirm_button \in (IF processed_data' = NoTable
                                       THEN {FALSE} ELSE BOOLEAN),
                   export_button \in BOOLEAN :
                LET saved == render_column_selection_tab(
                                 processed_data', selected, multiselect, confirm_button)
                    panel == render_export_tab(processed_data', saved, export_button)
                IN /\ export_button => panel.summary = "ok"
                   /\ selected_columns' = saved
                   /\ page' = [app |-> MergeApp, app_error |-> "none",
                               confirm |-> confirm_button, export_panel |-> panel,
                               multiselect |-> multiselect,
                               tabs |-> <<"upload", "preview", "columns", "export">>]

\* WelcomeApp.render: the button of the merge application sets "current_app"
RenderWelcomeApp(selected) ==
    /\ \E use_button \in BOOLEAN :
         current_app' = IF use_button THEN MergeApp ELSE WelcomeApp
    /\ selected_columns' = selected
    /\ page' = [NoPage EXCEPT !.app = WelcomeApp]
    /\ UNCHANGED <<uploaded_files, merge_args, processed_data, shown, source_stats>>

\* one run of the page script, the selectbox of the sidebar being at
\* selected_app_name
RunPage ==
    /\ \E selected_app_name \in AppNames :
         LET chosen == render_app_selector(
                           init_session_state(
                               SessionState(current_app, uploaded_files,
                                            processed_data, selected_columns)),
                           selected_app_name)
         IN IF chosen["current_app"] = MergeApp
            THEN /\ current_app' = chosen["current_app"]
                 /\ RenderMergeApp(get_selected_columns(chosen))
            ELSE RenderWelcomeApp(get_selected_columns(chosen))
    /\ UNCHANGED <<call, result, container_vars>>

\* MainUI._render_app_selector called on a session state that
\* init_session_state has filled
SelectorSessions ==
    {SessionState(app, files, data, ColumnList(names)) :
        app \in AppNames \cup {NoApp},
        files \in PageBatchesUpTo(MaxPageFiles),
        data \in {NoTable, MkTable(1, [columns |-> <<a_>>, kind |-> "String", nrows |-> 1])},
        names \in DistinctSeqs({a_, DEFAULT_SOURCE_COLUMN}, 0, 2)}

CallRenderAppSelector ==
    /\ call = NoCall
    /\ \E session \in SelectorSessions, selected_app_name \in AppNames :
        /\ call' = [op |-> "render_app_selector",
                    selected_app_name |-> selected_app_name, session |-> session]
        /\ result' = [session |-> render_app_selector(session, selected_app_name),
                      status |-> "ok"]
    /\ UNCHANGED <<uploaded_files, merge_args, processed_data, shown, source_stats,
                   ui_vars, container_vars>>

NextSelector == CallRenderAppSelector

SpecSelector == Init /\ [][NextSelector]_vars

NextPage == RunPage

SpecPage == Init /\ [][NextPage]_vars

-----------------------------------------------------------------------------
(* Vocabulary of the properties *)

IsIdenticalCall == call.op = "merge_identical_dataframes"

\* the merge returned a table
Returned == result.status = "ok"

\* the merge raised the ValueError of the given reason
RaisedReason(reason) ==
    /\ result.status = "error"
    /\ result.error.reason = reason
    /\ result.df = NoTable

SameColumnNames(dfs) == \A i \in 1..Len(dfs) : dfs[i].columns = dfs[1].columns

SameKinds(dfs) == \A i \in 1..Len(dfs) : dfs[i].dtypes = dfs[1].dtypes

Heights(dfs) == [i \in 1..Len(dfs) |-> Height(dfs[i])]

\* number of rows of the tables before table i
Offset(dfs, i) == SumSeq(SubSeq(Heights(dfs), 1, i - 1))

\* the cell of row n of df in the column named c
CellAt(df, n, c) == df.rows[n][ColIndex(df, c)]

\* a request the strict merge has no reason to refuse: at least one table,
\* one label per table, one column-name sequence, one kind per column
ValidRequest ==
    /\ call.dfs # <<>>
    /\ Len(call.source_names) = Len(call.dfs)
    /\ SameColumnNames(call.dfs)
    /\ SameKinds(call.dfs)

-----------------------------------------------------------------------------
(* C1 *)

\* C1 as stated: for every non-empty list of tables with one column-name
\* sequence and one label per table, merge_identical_dataframes returns a
\* table whose row count is the sum of the input row counts and whose column
\* set is the input columns plus the provenance column.
C1_SameNamesMergeReturnsSum ==
    (/\ IsIdenticalCall
     /\ call.dfs # <<>>
     /\ Len(call.source_names) = Len(call.dfs)
     /\ SameColumnNames(call.dfs))
    => /\ Returned
       /\ Height(result.df) = SumSeq(Heights(call.dfs))
       /\ Range(result.df.columns)
            = Range(call.dfs[1].columns) \cup {DEFAULT_SOURCE_COLUMN}

\* C1 amended: the same, for tables that also agree on the kind of every
\* column (pl.concat refuses frames whose dtypes differ).
C1_SameSchemaMergeReturnsSum ==
    (IsIdenticalCall /\ ValidRequest)
    => /\ Returned
       /\ Height(result.df) = SumSeq(Heights(call.dfs))
       /\ Range(result.df.columns)
            = Range(call.dfs[1].columns) \cup {DEFAULT_SOURCE_COLUMN}

\* three tables of one schema, with 2, 1 and 2 rows, merged into 5 rows
C1_Witness ==
    /\ IsIdenticalCall /\ ValidRequest /\ Returned
    /\ Heights(call.dfs) = <<2, 1, 2>>
    /\ Height(result.df) = 5

-----------------------------------------------------------------------------
(* C2 *)

\* C2: the merged rows are the rows of source 1 in their order, then those
\* of source 2, and so on (compared on every input column other than the
\* provenance column); a valid request is never refused, whatever the row
\* counts, so a source without rows contributes nothing and breaks nothing.
C2_RowsInSourceOrder ==
    IsIdenticalCall =>
      /\ ValidRequest => Returned
      /\ Returned =>
           /\ Height(result.df) = SumSeq(Heights(call.dfs))
           /\ \A i \in 1..Len(call.dfs) : \A r \in 1..Height(call.dfs[i]) :
                \A c \in Range(call.dfs[i].columns) \ {DEFAULT_SOURCE_COLUMN} :
                   CellAt(result.df, Offset(call.dfs, i) + r, c)
                     = CellAt(call.dfs[i], r, c)

\* a table without rows between two tables with rows
C2_Witness ==
    /\ IsIdenticalCall /\ Returned
    /\ Heights(call.dfs) = <<2, 0, 1>>
    /\ Height(result.df) = 3
    /\ call.dfs[1].columns = <<a_, A_>>

-----------------------------------------------------------------------------
(* C3 *)

\* the source whose rows include merged row n
SourceOfRow(dfs, n) ==
    CHOOSE i \in 1..Len(dfs) : Offset(dfs, i) < n /\ n <= Offset(dfs, i) + Height(dfs[i])

\* C3: every merged row holds, in the provenance column, the label given at
\* the position of the source the row comes from (the row's other cells are
\* cells of that source), and so one label per source on all its rows.
C3_RowsCarryTheirSourceLabel ==
    (IsIdenticalCall /\ Returned) =>
      \A n \in 1..Height(result.df) :
         LET i == SourceOfRow(call.dfs, n) IN
         /\ CellAt(result.df, n, DEFAULT_SOURCE_COLUMN) = Lit(call.source_names[i])
         /\ \A c \in Range(result.df.columns) \ {DEFAULT_SOURCE_COLUMN} :
               CellAt(result.df, n, c)[1] = i

\* two sources with rows and different labels
C3_Witness ==
    /\ IsIdenticalCall /\ Returned
    /\ Len(call.dfs) = 2
    /\ Heights(call.dfs) = <<1, 2>>
    /\ call.source_names[1] # call.source_names[2]
    /\ call.dfs[1].columns = <<a_>>

-----------------------------------------------------------------------------
(* C4 *)

\* table t with the provenance column, holding label on every row, appended
WithProvenanceAppended(t, label) ==
    [columns |-> Append(t.columns, DEFAULT_SOURCE_COLUMN),
     dtypes  |-> Append(t.dtypes, "String"),
     rows    |-> [r \in 1..Len(t.rows) |-> Append(t.rows[r], Lit(label))]]

\* C4: merging [t] with [label] returns t, unchanged, with the provenance
\* column appended and every row labelled label.
C4_SingleTableReturnedWithProvenance ==
    (IsIdenticalCall /\ Len(call.dfs) = 1 /\ Len(call.source_names) = 1)
    => /\ Returned
       /\ result.df = WithProvenanceAppended(call.dfs[1], call.source_names[1])

-----------------------------------------------------------------------------
(* C5 *)

\* two of the tables differ in their column-name sequences
SomeColumnNamesDiffer(dfs) ==
    \E i, j \in 1..Len(dfs) : dfs[i].columns # dfs[j].columns

\* C5 as stated: the strict merge raises the schema-mismatch error if and
\* only if two input tables differ in their column-name sequences.
C5_MismatchIffNamesDiffer ==
    IsIdenticalCall =>
      (RaisedReason("columns_differ") <=> SomeColumnNamesDiffer(call.dfs))

\* C5 amended: the same, when the number of labels is the number of tables
\* (the count check comes first and hides a schema difference).
C5_MismatchIffNamesDifferGivenCounts ==
    (IsIdenticalCall /\ Len(call.source_names) = Len(call.dfs)) =>
      (RaisedReason("columns_differ") <=> SomeColumnNamesDiffer(call.dfs))

\* two labelled tables with the same names in another order are refused
C5_Witness ==
    /\ IsIdenticalCall
    /\ RaisedReason("columns_differ")
    /\ Len(call.dfs) = 2 /\ Len(call.source_names) = 2
    /\ call.dfs[1].columns = <<a_, A_>>
    /\ call.dfs[2].columns = <<A_, a_>>

-----------------------------------------------------------------------------
(* C6 *)

\* C6: the schema-mismatch error tells, for every table that differs from
\* the first, its index with the columns it lacks and the columns it adds,
\* and a table that differs by order alone is reported with its difference.
C6_ErrorListsEveryOffendingTable ==
    (IsIdenticalCall /\ RaisedReason("columns_differ")) =>
      \A i \in ColumnsDiffer(call.dfs) :
         /\ result.error.index = i
         /\ result.error.missing
              = Range(call.dfs[1].columns) \ Range(call.dfs[i].columns)
         /\ result.error.extra
              = Range(call.dfs[i].columns) \ Range(call.dfs[1].columns)
         /\ result.error.missing \cup result.error.extra # {}

-----------------------------------------------------------------------------
(* C7 *)

\* C7: merge_dataframes and merge_identical_dataframes given no table raise
\* the no-dataframes error and return no table, whatever the labels.
C7_NoTablesRaises ==
    (call.op # "none" /\ call.dfs = <<>>) => RaisedReason("no_dataframes")

\* the strict merge called with no table and three labels
C7_Witness ==
    /\ IsIdenticalCall
    /\ call.dfs = <<>>
    /\ Len(call.source_names) = 3
    /\ RaisedReason("no_dataframes")

-----------------------------------------------------------------------------
(* C8 *)

\* C8: with at least one table and a number of labels other than the number
\* of tables, the strict merge raises the count-mismatch error, also when
\* the tables' schemas differ, and returns no table.
C8_CountMismatchRaisesFirst ==
    (IsIdenticalCall /\ call.dfs # <<>> /\ Len(call.source_names) # Len(call.dfs))
    => RaisedReason("count_mismatch")

\* two tables of different schemas with one label
C8_Witness ==
    /\ IsIdenticalCall
    /\ Len(call.dfs) = 2 /\ Len(call.source_names) = 1
    /\ ~SameColumnNames(call.dfs)
    /\ RaisedReason("count_mismatch")

-----------------------------------------------------------------------------
(* C9 *)

\* C9: the merged table's columns are the input columns in their order and
\* then the provenance column, one column more than each input, and every
\* input column keeps its cells.
C9_ProvenanceColumnAppendedLast ==
    (IsIdenticalCall /\ Returned) =>
      /\ result.df.columns = Append(call.dfs[1].columns, DEFAULT_SOURCE_COLUMN)
      /\ \A i \in 1..Len(call.dfs) : \A r \in 1..Height(call.dfs[i]) :
           \A k \in 1..Len(call.dfs[i].columns) :
              result.df.rows[Offset(call.dfs, i) + r][k] = call.dfs[i].rows[r][k]

-----------------------------------------------------------------------------
(* C10 *)

\* C10: the labels the batch run hands to the merge are pairwise distinct.
C10_LabelsPairwiseDistinct ==
    merge_args.called =>
      \A i, j \in 1..Len(merge_args.source_names) :
         i # j => merge_args.source_names[i] # merge_args.source_names[j]

-----------------------------------------------------------------------------
(* C11 *)

\* the message the run of the upload tab ended with
LastShown == IF shown = <<>> THEN "none" ELSE shown[Len(shown)][1]

\* the one-to-one assignments of the n sources to the n displayed entries
Bijections(n) == {p \in [1..n -> 1..n] : \A i, j \in 1..n : i # j => p[i] # p[j]}

\* C11: the source statistics displayed after a successful batch merge have
\* one entry per source table handed to the merge (sources without rows and
\* sources with one label included), each entry giving a source's label and
\* that source's own row count, and the counts sum to the merged row count.
C11_BreakdownHasOneEntryPerSource ==
    LastShown = "success" =>
      /\ Len(source_stats) = Len(merge_args.dfs)
      /\ \E p \in Bijections(Len(merge_args.dfs)) :
            \A i \in 1..Len(merge_args.dfs) :
               source_stats[p[i]] = [len |-> Height(merge_args.dfs[i]),
                                     source |-> Lit(merge_args.source_names[i])]
      /\ SumSeq([k \in 1..Len(source_stats) |-> source_stats[k].len])
            = Height(processed_data)

-----------------------------------------------------------------------------
(* C12 *)

\* the common-column merge was given two or more tables
IsCommonMerge == call.op = "merge_dataframes" /\ Len(call.dfs) >= 2

\* the columns common to all the tables in the order of their first
\* occurrence among the tables: each occurs in the first table
FirstOccurrenceOrder(dfs) ==
    SelectSeq(dfs[1].columns, LAMBDA c : c \in CommonColumnSet(dfs))

\* C12: the column list of the common-column merge is the common columns in
\* first-occurrence order, whatever order the set of common columns is
\* listed in, and so the same list on every run over the same tables.
C12_CommonColumnsInFirstOccurrenceOrder ==
    (IsCommonMerge /\ Returned) =>
      result.df.columns = FirstOccurrenceOrder(call.dfs)

-----------------------------------------------------------------------------
(* C13 *)

\* the normalized column names of a table
NormalizedNames(df) == {StandardName(c) : c \in Range(df.columns)}

\* the normalized names that occur in every table
NormalizedCommon(dfs) ==
    {n \in NormalizedNames(dfs[1]) : \A i \in 2..Len(dfs) : n \in NormalizedNames(dfs[i])}

\* no table has two columns of one normalized name
NormalizationIsInjective(dfs) ==
    \A i \in 1..Len(dfs) : Cardinality(NormalizedNames(dfs[i])) = Len(dfs[i].columns)

\* C13: column names are normalized before they are compared: tables of one
\* kind that share a normalized name are merged, and the merged table keeps
\* exactly the normalized names that occur in every input table.
C13_NormalizedBeforeCompared ==
    IsCommonMerge =>
      /\ (/\ NormalizedCommon(call.dfs) # {}
          /\ NormalizationIsInjective(call.dfs)
          /\ SameKinds(call.dfs)) => Returned
      /\ Returned => Range(result.df.columns) = NormalizedCommon(call.dfs)

-----------------------------------------------------------------------------
(* C14 *)

\* C14: the common-column merge of two or more tables without a common
\* column, by normalized and so also by written name, raises the
\* no-common-columns error and never returns a table without columns.
C14_NoCommonColumnsRaises ==
    IsCommonMerge =>
      /\ NormalizedCommon(call.dfs) = {} => RaisedReason("no_common_columns")
      /\ ~(Returned /\ result.df.columns = <<>>)

-----------------------------------------------------------------------------
(* C15 *)

RECURSIVE Flatten(_)
Flatten(seqs) == IF seqs = <<>> THEN <<>> ELSE Head(seqs) \o Flatten(Tail(seqs))

\* C15: in a batch run every file is read; a file is reported as failed if
\* and only if its read raises; the merge is called if and only if some
\* table was read, and then with exactly the tables of the files read, in
\* upload order, and with as many labels as tables.
C15_ReadFailureDoesNotAbortBatch ==
    (uploaded_files # <<>> /\ shown # <<>>) =>
      \E all_sheets \in BOOLEAN :
        LET reads == [i \in 1..Len(uploaded_files) |->
                         read_file(uploaded_files[i], all_sheets)]
            tables == Flatten([i \in 1..Len(uploaded_files) |-> reads[i].dfs])
        IN /\ \A i \in 1..Len(uploaded_files) :
                (<<"read_failed", i>> \in Range(shown)) <=> ~reads[i].ok
           /\ merge_args.called <=> tables # <<>>
           /\ merge_args.called =>
                /\ merge_args.dfs = tables
                /\ Len(merge_args.source_names) = Len(merge_args.dfs)

\* the first of two files cannot be read, the second holds a table with a
\* row, and the merge is run over that table alone
C15_Witness ==
    /\ Len(uploaded_files) = 2
    /\ <<"read_failed", 1>> \in Range(shown)
    /\ merge_args.called
    /\ Len(merge_args.dfs) = 1
    /\ Height(merge_args.dfs[1]) = 1
    /\ merge_args.dfs[1].rows[1][1][1] = 21
    /\ LastShown = "success"

-----------------------------------------------------------------------------
(* C16 *)

\* C16: a run of the upload tab that does not end in success (no file
\* uploaded, no table read, or the merge raised) leaves processed_data as it
\* was before the run, and a run that ends in success sets it to the whole
\* table merged from the tables of that run.
C16_FailedRunKeepsProcessedData ==
    [][/\ LastShown' # "success" => processed_data' = processed_data
       /\ LastShown' = "success" =>
            processed_data' = merge_identical_dataframes(
                                  merge_args'.dfs, merge_args'.source_names,
                                  DEFAULT_SOURCE_COLUMN).df]_vars

\* a session that holds a merged table with a row, after a later run whose
\* merge was refused
C16_Witness ==
    /\ LastShown = "processing_failed"
    /\ merge_args.called
    /\ processed_data # NoTable
    /\ Height(processed_data) >= 1

-----------------------------------------------------------------------------
(* C17 *)

IsReadCall == call.op = "read_file"

\* C17: read_file returns tables only for a name that ends, in any letter
\* case, with .csv, .xlsx or .xls; for every other name, and for no
\* supported name, it raises the unsupported-format error, without having
\* called a reader on the file and without a table.
C17_OnlySupportedNamesAreRead ==
    IsReadCall =>
      /\ result.ok => call.file.name \in SupportedReadNames
      /\ result.reason = "unsupported_format"
            <=> call.file.name \in UnsupportedReadNames
      /\ call.file.name \in UnsupportedReadNames =>
            /\ ~result.ok
            /\ ~result.decoded
            /\ result.dfs = <<>>

\* a file named R.CSV is read as delimited text
C17_Witness ==
    /\ IsReadCall
    /\ call.file.name = <<"R", ".", "C", "S", "V">>
    /\ result.ok
    /\ result.dfs = call.file.sheets
    /\ Len(result.dfs) = 1

\* a decodable workbook named r.csv.txt is refused
C17_WitnessRefused ==
    /\ IsReadCall
    /\ call.file.name = <<"r", ".", "c", "s", "v", ".", "t", "x", "t">>
    /\ call.file.decodable /\ Len(call.file.sheets) = 2
    /\ result.reason = "unsupported_format"

-----------------------------------------------------------------------------
(* C18 *)

\* C18: read_file never returns an empty list of tables: a spreadsheet for
\* which the reader reports no sheet is an error.
C18_NoSheetsIsAnError ==
    IsReadCall => (result.ok => result.dfs # <<>>)

-----------------------------------------------------------------------------
(* C19 *)

\* the number of null cells of column k of df
NullsOfColumn(df, k) == Cardinality({r \in 1..Height(df) : df.rows[r][k].null})

\* the fraction q is n / d * 100
IsPercentageOf(q, n, d) == q.den > 0 /\ q.num * d = 100 * n * q.den

\* C19: get_column_statistics returns for every table, and gives for each
\* column null_count / row_count * 100 when the table has rows and 0 when it
\* has none; validate_data divides by zero for no table, and for a table
\* without rows it returns with an overall null percentage of 0.
C19_NullPercentageNeverDividesByZero ==
    /\ call.op = "get_column_statistics" =>
         /\ result.status = "ok"
         /\ Len(result.report) = Len(call.df.columns)
         /\ \A k \in 1..Len(call.df.columns) :
               IF Height(call.df) >= 1
               THEN IsPercentageOf(result.report[k].null_percentage,
                                   NullsOfColumn(call.df, k), Height(call.df))
               ELSE result.report[k].null_percentage = Frac(0, 1)
    /\ call.op = "validate_data" =>
         /\ result.error # "ZeroDivisionError"
         /\ Height(call.df) = 0 =>
               result.status = "ok" /\ result.null_percentage = Frac(0, 1)
         /\ Height(call.df) >= 1 =>
               IsPercentageOf(result.null_percentage,
                              SumSeq([k \in 1..Len(call.df.columns) |->
                                         NullsOfColumn(call.df, k)]),
                              Height(call.df) * Len(call.df.columns))

\* the statistics of a table with two columns and no row
C19_Witness ==
    /\ call.op = "get_column_statistics"
    /\ Len(call.df.columns) = 2
    /\ Height(call.df) = 0
    /\ result.status = "ok"
    /\ result.report[1].null_percentage = Frac(0, 1)

\* validate_data on a table with two columns and no row
C19_WitnessValidate ==
    /\ call.op = "validate_data"
    /\ Len(call.df.columns) = 2
    /\ Height(call.df) = 0
    /\ result.status = "ok"

-----------------------------------------------------------------------------
(* C20 *)

IsValidateColumnsCall == call.op = "validate_columns"

\* the names of the schema of the table validated: none for an absent table
SchemaOf(df) == IF df.is_none THEN {} ELSE Range(df.columns)

\* the required names that the schema lacks, in the order given
RequiredAbsent(df, required) == SelectSeq(required, LAMBDA c : c \notin SchemaOf(df))

\* C20 as stated: for every table, absent or not, and every required list,
\* empty or not, the report is valid if and only if every required name is
\* in the schema, and missing_columns is the required names absent from the
\* schema, in the order given.
C20_ValidIffAllRequiredPresent ==
    IsValidateColumnsCall =>
      /\ result.is_valid
            <=> \A c \in Range(call.required_columns) : c \in SchemaOf(call.df)
      /\ result.missing_columns = RequiredAbsent(call.df, call.required_columns)

\* C20 amended: the same for every table that is present; for an absent
\* table the report is invalid, whatever the required list, and
\* missing_columns is the whole required list.
C20_ValidIffAllRequiredPresentInTable ==
    IsValidateColumnsCall =>
      /\ ~call.df.is_none =>
            /\ result.is_valid
                  <=> \A c \in Range(call.required_columns) : c \in SchemaOf(call.df)
            /\ result.missing_columns = RequiredAbsent(call.df, call.required_columns)
      /\ call.df.is_none =>
            /\ ~result.is_valid
            /\ result.missing_columns = call.required_columns

\* an absent table asked for no column: invalid, nothing missing
C20_Witness ==
    /\ IsValidateColumnsCall
    /\ call.df.is_none
    /\ call.required_columns = <<>>
    /\ ~result.is_valid
    /\ result.missing_columns = <<>>

\* a table with columns a, A asked for b, a, b: invalid, b missing twice
C20_WitnessPresent ==
    /\ IsValidateColumnsCall
    /\ call.df = DataFrameWith(<<a_, A_>>)
    /\ call.required_columns = <<b_, a_, b_>>
    /\ ~result.is_valid
    /\ result.missing_columns = <<b_, b_>>

-----------------------------------------------------------------------------
(* C21 *)

IsExportExcelCall == call.op = "export_excel"

IsExportSummaryCall == call.op = "get_export_summary"

\* the names of the selection that are no column of the table
AbsentFrom(df, columns) == {c \in Range(columns.names) : c \notin Range(df.columns)}

\* C21: exporting a selection that holds a column absent from the table
\* fails with an error naming every absent column (and no other), nothing
\* having been written and no bytes being returned; the export summary of
\* such a selection fails too and returns no counts.
C21_AbsentColumnFailsBeforeWriting ==
    /\ (IsExportExcelCall /\ AbsentFrom(call.df, call.columns) # {}) =>
          /\ result.status = "error"
          /\ Range(result.error.named) = AbsentFrom(call.df, call.columns)
          /\ ~result.written
          /\ result.excel_data = NoTable
    /\ (IsExportSummaryCall /\ AbsentFrom(call.df, call.columns) # {}) =>
          /\ result.status = "error"
          /\ result.summary = NoSummary

\* a selection with two absent columns around a present one was refused
C21_Witness ==
    /\ IsExportExcelCall
    /\ call.df.columns = <<a_>>
    /\ call.columns = ColumnList(<<b_, a_, A_>>)
    /\ result.status = "error"
    /\ result.error.named = <<b_, A_>>

\* the summary of a selection with an absent column was refused
C21_WitnessSummary ==
    /\ IsExportSummaryCall
    /\ call.df.columns = <<a_, b_>>
    /\ call.columns = ColumnList(<<b_, A_>>)
    /\ result.status = "error"

-----------------------------------------------------------------------------
(* C22 *)

\* C22: for a selection of columns of the table, get_export_summary returns
\* the table's row count, and either the table's column count and column
\* list when the selection is None or empty, or else the number of selected
\* columns and the selected columns in the order they were chosen.
C22_SummaryCountsSelection ==
    (IsExportSummaryCall /\ AbsentFrom(call.df, call.columns) = {}) =>
        /\ result.status = "ok"
        /\ result.summary.total_rows = Height(call.df)
        /\ IF call.columns.is_none \/ call.columns.names = <<>>
           THEN /\ result.summary.total_columns = Len(call.df.columns)
                /\ result.summary.selected_columns = call.df.columns
           ELSE /\ result.summary.total_columns = Len(call.columns.names)
                /\ result.summary.selected_columns = call.columns.names

\* a summary of two columns chosen in the reverse of the table's order
C22_Witness ==
    /\ IsExportSummaryCall
    /\ call.df.columns = <<a_, b_>>
    /\ Height(call.df) = 2
    /\ call.columns = ColumnList(<<b_, a_>>)
    /\ result.status = "ok"
    /\ result.summary.total_columns = 2
    /\ result.summary.selected_columns = <<b_, a_>>

\* a summary of an unset selection
C22_WitnessUnset ==
    /\ IsExportSummaryCall
    /\ call.columns = NoColumns
    /\ Len(call.df.columns) = 2
    /\ result.status = "ok"
    /\ result.summary.total_columns = 2

-----------------------------------------------------------------------------
(* C25 *)

IsClearStateCall == call.op = "clear_state"

\* C25: clear_state called with a list deletes exactly the listed keys that
\* exist and leaves every other key with its value; the whole state is
\* cleared only when keys is None.
C25_ListDeletesExactlyListedKeys ==
    (IsClearStateCall /\ ~call.keys.is_none) =>
        /\ DOMAIN result.state = DOMAIN call.state \ Range(call.keys.names)
        /\ \A k \in DOMAIN result.state : result.state[k] = call.state[k]

\* what the code does: a non-empty list deletes exactly its keys, while the
\* empty list, like None, clears the whole state
C25_EmptyListClearsEverything ==
    IsClearStateCall =>
        IF ~call.keys.is_none /\ call.keys.names # <<>>
        THEN /\ DOMAIN result.state = DOMAIN call.state \ Range(call.keys.names)
             /\ \A k \in DOMAIN result.state : result.state[k] = call.state[k]
        ELSE DOMAIN result.state = {}

\* the empty list cleared a state of two keys
C25_WitnessEmptyList ==
    /\ IsClearStateCall
    /\ call.keys = KeyList(<<>>)
    /\ DOMAIN call.state = {"processed_data", "selected_columns"}
    /\ DOMAIN result.state = {}

-----------------------------------------------------------------------------
(* C26 *)

\* a step of Container.get
IsGetStep == call'.op = "get" /\ vars' # vars

\* C26: get of a name registered as a singleton returns an instance of the
\* class most recently registered under the name, the cached one when there
\* is one (nothing is constructed then); get of a name registered otherwise
\* constructs a new instance; get of an unregistered name raises ValueError
\* and constructs nothing.
C26_GetReturnsInstanceOfRegisteredClass ==
    [][IsGetStep =>
        LET name == call'.name IN
        IF name \notin DOMAIN container.services
        THEN /\ result'.status = "error"
             /\ result'.error = "ValueError"
             /\ constructed' = constructed
        ELSE /\ result'.status = "ok"
             /\ result'.instance.cls = container.services[name].service_class
             /\ IF container.services[name].singleton
                THEN IF name \in DOMAIN container.singletons
                     THEN /\ result'.instance = container.singletons[name]
                          /\ constructed' = constructed
                     ELSE /\ constructed' = Append(constructed, result'.instance)
                          /\ container'.singletons[name] = result'.instance
                ELSE /\ constructed' = Append(constructed, result'.instance)
                     /\ result'.instance.id > Len(constructed)
    ]_vars

\* what the code does: the same, but a singleton is of the class registered
\* when it was constructed, whatever was registered since
C26_SingletonOutlivesItsRegistration ==
    [][IsGetStep =>
        LET name == call'.name IN
        IF name \notin DOMAIN container.services
        THEN /\ result'.status = "error"
             /\ result'.error = "ValueError"
             /\ constructed' = constructed
        ELSE /\ result'.status = "ok"
             /\ IF container.services[name].singleton
                THEN IF name \in DOMAIN container.singletons
                     THEN /\ result'.instance = container.singletons[name]
                          /\ constructed' = constructed
                     ELSE /\ result'.instance.cls = container.services[name].service_class
                          /\ constructed' = Append(constructed, result'.instance)
                          /\ container'.singletons[name] = result'.instance
                ELSE /\ result'.instance.cls = container.services[name].service_class
                     /\ constructed' = Append(constructed, result'.instance)
                     /\ result'.instance.id > Len(constructed)
    ]_vars

\* a singleton of one class was returned for a name now registered, as a
\* singleton, with the other class
C26_WitnessStaleSingleton ==
    /\ call.op = "get"
    /\ result.status = "ok"
    /\ call.name \in DOMAIN container.services
    /\ container.services[call.name].singleton
    /\ result.instance.cls # container.services[call.name].service_class

-----------------------------------------------------------------------------
(* C29 *)

\* the kind the merged table gives to the column named c
MergedKind(c) == result.df.dtypes[ColIndex(result.df, c)]

\* source i gives column c a kind the merged table does not give it
KindLost(i, c) ==
    call.dfs[i].dtypes[ColIndex(call.dfs[i], c)] # MergedKind(c)

\* C29: when all tables have the same column-name sequence, a merged table
\* that is returned gives every column the kind it has in every source
\* table; in particular, when two sources give a column different kinds, no
\* table is returned.
C29_MergedKindsAreSourceKinds ==
    (IsIdenticalCall /\ call.dfs # <<>> /\ SameColumnNames(call.dfs) /\ Returned) =>
        /\ \A i \in 1..Len(call.dfs) :
             \A c \in Range(call.dfs[i].columns) : ~KindLost(i, c)
        /\ SameKinds(call.dfs)

\* what the code does: the same on every column but one named like the
\* provenance column, which the merge writes over with the labels
C29_KindsAgreeOutsideProvenanceColumn ==
    (IsIdenticalCall /\ call.dfs # <<>> /\ SameColumnNames(call.dfs) /\ Returned) =>
        \A i \in 1..Len(call.dfs) :
            \A c \in Range(call.dfs[i].columns) \ {DEFAULT_SOURCE_COLUMN} :
                /\ ~KindLost(i, c)
                /\ call.dfs[i].dtypes[ColIndex(call.dfs[i], c)]
                     = call.dfs[1].dtypes[ColIndex(call.dfs[1], c)]

\* two tables gave column a different kinds and the merge raised
C29_WitnessKindsDiffer ==
    /\ IsIdenticalCall
    /\ Len(call.dfs) = 2
    /\ call.dfs[1].columns = <<a_>> /\ call.dfs[2].columns = <<a_>>
    /\ call.dfs[1].dtypes # call.dfs[2].dtypes
    /\ Len(call.source_names) = 2
    /\ result.status = "error"

\* two tables gave a column named like the provenance column different
\* kinds and the merge returned a table
C29_WitnessProvenanceOverwritten ==
    /\ IsIdenticalCall
    /\ Len(call.dfs) = 2
    /\ call.dfs[1].columns = <<DEFAULT_SOURCE_COLUMN>>
    /\ call.dfs[1].dtypes = <<"Int64">>
    /\ call.dfs[2].dtypes = <<"String">>
    /\ Returned
    /\ result.df.dtypes = <<"String">>

-----------------------------------------------------------------------------
(* C28 *)

\* the rows of the displayed source statistics, whatever their order
StatsRows(stats) == Range(stats)

\* C28: when a run of the upload tab processes the files the run before it
\* processed and reads the same tables from them, both runs succeeding, it
\* leaves processed_data and the per-source counts as they were, and the
\* merged table has as many rows as the tables read in one run: no row is
\* added or counted a second time.
C28_RerunWithSameFilesIsIdempotent ==
    [][(/\ LastShown = "success"
        /\ LastShown' = "success"
        /\ uploaded_files' = uploaded_files
        /\ merge_args' = merge_args) =>
           /\ processed_data' = processed_data
           /\ Height(processed_data') = SumSeq(Heights(merge_args'.dfs))
           /\ StatsRows(source_stats') = StatsRows(source_stats)]_vars

\* a session whose last run merged a file with a row; the run that follows
\* with the same file ends in this same state
C28_Witness ==
    /\ LastShown = "success"
    /\ Len(uploaded_files) = 1
    /\ Height(processed_data) = 1
    /\ Len(source_stats) = 1

-----------------------------------------------------------------------------
(* C24 *)

IsSelectorCall == call.op = "render_app_selector"

\* C24: when the app chosen in the selector differs from current_app, the
\* selector sets current_app to it and removes selected_columns from the
\* session, every other key keeping its value; when it equals current_app,
\* the session is left as it is.
C24_SelectorClearsSelectionOnChange ==
    IsSelectorCall =>
        LET before == call.session
            after == result.session
        IN IF call.selected_app_name # before["current_app"]
           THEN /\ after["current_app"] = call.selected_app_name
                /\ DOMAIN after = DOMAIN before \ {"selected_columns"}
                /\ after["processed_data"] = before["processed_data"]
                /\ after["uploaded_files"] = before["uploaded_files"]
           ELSE after = before

\* the selector was moved to the merge application in a session that held a
\* merged table, an uploaded file and a selection
C24_Witness ==
    /\ IsSelectorCall
    /\ call.session["current_app"] = WelcomeApp
    /\ call.selected_app_name = MergeApp
    /\ call.session["selected_columns"] = ColumnList(<<a_>>)
    /\ call.session["processed_data"] # NoTable
    /\ call.session["uploaded_files"] # <<>>
    /\ "selected_columns" \notin DOMAIN result.session

\* the selector was left where it was in a session that held a selection
C24_WitnessSameApp ==
    /\ IsSelectorCall
    /\ call.session["current_app"] = MergeApp
    /\ call.selected_app_name = MergeApp
    /\ call.session["selected_columns"] = ColumnList(<<a_>>)
    /\ result.session = call.session

-----------------------------------------------------------------------------
(* C23 *)

\* the run of the page script that led to this state rendered the export
\* panel
ExportPanelRendered == page.export_panel.rendered

\* C23: the export panel is rendered, and export_excel called, only in a
\* session that holds a merged table and a non-empty selection; and a run
\* leaves a new non-empty selection in the session only when the form was
\* confirmed in that run with that selection in the multiselect.
C23_ExportNeedsDataAndConfirmedSelection ==
    /\ [](/\ ExportPanelRendered =>
                /\ processed_data # NoTable
                /\ Truthy(selected_columns)
                /\ page.export_panel.columns = selected_columns
          /\ page.export_panel.export # "none" => ExportPanelRendered)
    /\ [][(selected_columns' # selected_columns /\ Truthy(selected_columns')) =>
             /\ page'.confirm
             /\ page'.multiselect = selected_columns'.names]_vars

\* a run in which the multiselect held a column and the form was not
\* confirmed: the session's selection is still empty and no panel is shown
C23_Witness ==
    /\ page.app = MergeApp
    /\ page.multiselect = <<a_>>
    /\ ~page.confirm
    /\ processed_data # NoTable
    /\ selected_columns = ColumnList(<<>>)
    /\ ~ExportPanelRendered

\* a run in which the form was confirmed and the file exported
C23_WitnessExported ==
    /\ page.confirm
    /\ page.multiselect = <<DEFAULT_SOURCE_COLUMN, a_>>
    /\ selected_columns = ColumnList(<<DEFAULT_SOURCE_COLUMN, a_>>)
    /\ ExportPanelRendered
    /\ page.export_panel.export = "ok"

-----------------------------------------------------------------------------
(* C27 *)

\* C27: whenever the export panel is rendered, every name of the stored
\* selection is a column of the merged table the session holds, also after
\* an upload replaced that table by one of another schema.
C27_SelectionWithinCurrentColumns ==
    ExportPanelRendered =>
        Range(selected_columns.names) \subseteq Range(processed_data.columns)

\* the panel was rendered for a table with column b and a selection holding
\* column a, confirmed when the table had it
C27_WitnessStaleSelection ==
    /\ ExportPanelRendered
    /\ b_ \in Range(processed_data.columns)
    /\ a_ \in Range(selected_columns.names)
    /\ page.export_panel.summary = "error"

\* what the code does: the panel is rendered with whatever selection the
\* session holds; the summary fails when a selected column is gone, and the
\* export button is then not shown
C27_StaleSelectionFailsInPanel ==
    ExportPanelRendered =>
        /\ page.export_panel.summary = "error"
             <=> ~(Range(selected_columns.names) \subseteq Range(processed_data.columns))
        /\ page.export_panel.summary = "error" => page.export_panel.export = "none"

-----------------------------------------------------------------------------
(* C30 *)

ZeroRowData == processed_data # NoTable /\ Height(processed_data) = 0

\* C30: a run that renders the merge application for a merged table without
\* rows renders the preview tab without an exception, and the tabs after it.
C30_ZeroRowPreviewCompletes ==
    (page.app = MergeApp /\ ZeroRowData) =>
        /\ page.app_error = "none"
        /\ page.tabs = <<"upload", "preview", "columns", "export">>

\* what the code does: the division of the preview tab raises for every
\* merged table without rows, and the tabs after it are not rendered
C30_ZeroRowPreviewRaises ==
    page.app = MergeApp =>
        /\ ZeroRowData <=> page.app_error = "ZeroDivisionError"
        /\ ZeroRowData <=> page.tabs = <<"upload">>
        /\ ~ZeroRowData <=> page.tabs = <<"upload", "preview", "columns", "export">>

\* a header-only file was merged and the preview tab raised
C30_WitnessHeaderOnlyFile ==
    /\ page.app = MergeApp
    /\ LastShown = "success"
    /\ Len(uploaded_files) = 1
    /\ ZeroRowData
    /\ page.app_error = "ZeroDivisionError"

=============================================================================
